---- MODULE Spec2Model ----
(***************************************************************************)
(* Badminton entry checker (src/app.py): the identity resolver (lines      *)
(* 87-140), the rule validator (lines 149-186), the derived views (lines   *)
(* 197-212) and parse_event_grade (lines 38-44).                           *)
(*                                                                         *)
(* A Python string is a sequence of one-character strings, so that strip,  *)
(* split, lower, "in" and startswith are computed character by character.  *)
(* The fixed message texts of the script are single atoms of a string.     *)
(***************************************************************************)
EXTENDS Integers, Sequences, FiniteSets, TLC

VARIABLES grading_df, entrant_df, pc, exc, idx, results,
          matched_row, match_status, temp_confidence,
          violations_list, entrant_violations,
          violations_df, no_match_df, age_no_match_df,
          event, grade

vars == <<grading_df, entrant_df, pc, exc, idx, results,
          matched_row, match_status, temp_confidence,
          violations_list, entrant_violations,
          violations_df, no_match_df, age_no_match_df,
          event, grade>>

\* ------------------------------------------------------------------ bounds
MaxRoster == 2
MaxEntrants == 2
MaxTokens == 3

\* ------------------------------------------------------- Python strings
\* A missing cell of a table (pandas NaN) and a column the table does not have.
NaN == <<"NaN">>
Absent == <<"Absent">>

notna(x) == x # NaN

\* Code-point order of the characters the model uses.
Chars == <<" ","+",",","/","0","1","2","3","4","5","6","7","8","9","A","B","C","D","E","F","G","H","I","J","K","L","M","N","O","P","Q","R","S","T","U","V","W","X","Y","Z","a","b","c","d","e","f","g","h","i","j","k","l","m","n","o","p","q","r","s","t","u","v","w","x","y","z">>

ord(c) == CHOOSE i \in 1..Len(Chars) : Chars[i] = c

UpperFirst == ord("A")
LowerFirst == ord("a")

lower_char(c) == IF c \in {Chars[i] : i \in UpperFirst..(UpperFirst + 25)}
                 THEN Chars[ord(c) - UpperFirst + LowerFirst] ELSE c

upper_char(c) == IF c \in {Chars[i] : i \in LowerFirst..(LowerFirst + 25)}
                 THEN Chars[ord(c) - LowerFirst + UpperFirst] ELSE c

is_alpha(c) == lower_char(c) # c \/ upper_char(c) # c

lower(s) == [i \in 1..Len(s) |-> lower_char(s[i])]

\* str.title(): a letter is upper-cased after a non-letter, lower-cased after a letter.
title(s) == [i \in 1..Len(s) |->
               IF i = 1 \/ ~is_alpha(s[i - 1]) THEN upper_char(s[i]) ELSE lower_char(s[i])]

\* str(x) of a cell: a string is itself, NaN prints as "nan".
str(x) == IF x = NaN THEN <<"n","a","n">> ELSE x

RECURSIVE lstrip(_)
lstrip(s) == IF s # <<>> /\ Head(s) = " " THEN lstrip(Tail(s)) ELSE s

RECURSIVE rstrip(_)
rstrip(s) == IF s # <<>> /\ s[Len(s)] = " " THEN rstrip(SubSeq(s, 1, Len(s) - 1)) ELSE s

strip(s) == rstrip(lstrip(s))

\* s.split(sep): always at least one piece, empty pieces kept.
RECURSIVE split_sep(_, _, _)
split_sep(s, sep, cur) ==
    IF s = <<>> THEN <<cur>>
    ELSE IF Head(s) = sep THEN <<cur>> \o split_sep(Tail(s), sep, <<>>)
    ELSE split_sep(Tail(s), sep, Append(cur, Head(s)))

\* s.split(): the whitespace-separated tokens, none of them empty.
RECURSIVE split_ws(_, _)
split_ws(s, cur) ==
    IF s = <<>> THEN (IF cur = <<>> THEN <<>> ELSE <<cur>>)
    ELSE IF Head(s) = " "
         THEN (IF cur = <<>> THEN <<>> ELSE <<cur>>) \o split_ws(Tail(s), <<>>)
    ELSE split_ws(Tail(s), Append(cur, Head(s)))

split(s) == split_ws(s, <<>>)

\* sep.join(parts)
RECURSIVE join(_, _)
join(parts, sep) ==
    IF parts = <<>> THEN <<>>
    ELSE IF Len(parts) = 1 THEN parts[1]
    ELSE parts[1] \o sep \o join(Tail(parts), sep)

\* sub in s
contains(s, sub) == \E i \in 1..(Len(s) - Len(sub) + 1) : SubSeq(s, i, i + Len(sub) - 1) = sub

startswith(s, p) == Len(p) <= Len(s) /\ SubSeq(s, 1, Len(p)) = p

\* x in list
in_list(x, list) == \E i \in 1..Len(list) : list[i] = x

\* list.index(x)
index(list, x) == (CHOOSE i \in 1..Len(list) : list[i] = x /\ \A j \in 1..(i - 1) : list[j] # x) - 1

\* ---------------------------------------------------- parse_event_grade
\* The two-token phrases of line 41 and the grade_map of line 43.
grade_phrases == <<<<"A"," ","R","e","s","e","r","v","e">>, <<"A"," ","O","p","e","n">>>>

grade_map(g) == IF g = <<"A"," ","R","e","s","e","r","v","e">> THEN <<"A"," ","R","E","S">>
                ELSE IF g = <<"A"," ","O","p","e","n">> THEN <<"A">>
                ELSE g

last2(tokens) == join(SubSeq(tokens, Len(tokens) - 1, Len(tokens)), <<" ">>)

\* parse_event_grade of a label with no token: tokens[-1] raises IndexError.
parse_raises(e) == split(e) = <<>>

parse_event_grade_last_token(e) == split(e)[Len(split(e))]

parse_event_grade(e) ==
    LET tokens == split(e)
        grade0 == tokens[Len(tokens)]
        grade1 == IF Len(tokens) >= 2 /\ in_list(last2(tokens), grade_phrases)
                  THEN last2(tokens) ELSE grade0
    IN grade_map(grade1)

\* ------------------------------------------------- build_full_name (24-36)
fillna(x) == IF x = NaN THEN <<>> ELSE x

\* One row of build_full_name; middle = Absent when the table has no Middlename column.
build_full_name(first, middle, surname) ==
    IF middle # Absent
    THEN lower(strip(fillna(first)) \o <<" ">> \o strip(fillna(middle)) \o <<" ">> \o strip(fillna(surname)))
    ELSE lower(strip(fillna(first)) \o <<" ">> \o strip(fillna(surname)))

\* --------------------------------------- rapidfuzz: fuzz.token_sort_ratio
Max(a, b) == IF a >= b THEN a ELSE b

RECURSIVE str_less(_, _)
str_less(a, b) ==
    IF a = <<>> THEN b # <<>>
    ELSE IF b = <<>> THEN FALSE
    ELSE IF Head(a) = Head(b) THEN str_less(Tail(a), Tail(b))
    ELSE ord(Head(a)) < ord(Head(b))

RECURSIVE insert_sorted(_, _)
insert_sorted(t, list) ==
    IF list = <<>> THEN <<t>>
    ELSE IF str_less(t, Head(list)) THEN <<t>> \o list
    ELSE <<Head(list)>> \o insert_sorted(t, Tail(list))

RECURSIVE sorted(_)
sorted(list) == IF list = <<>> THEN <<>> ELSE insert_sorted(Head(list), sorted(Tail(list)))

\* One row of the longest-common-subsequence table: acc holds the new row so far.
RECURSIVE lcs_row(_, _, _, _)
lcs_row(prev, c, b, acc) ==
    IF Len(acc) = Len(b) THEN acc
    ELSE LET j == Len(acc) + 1
             diag == IF j = 1 THEN 0 ELSE prev[j - 1]
             left == IF j = 1 THEN 0 ELSE acc[j - 1]
             v == IF b[j] = c THEN diag + 1 ELSE Max(prev[j], left)
         IN lcs_row(prev, c, b, Append(acc, v))

RECURSIVE lcs_rows(_, _, _)
lcs_rows(a, b, prev) ==
    IF a = <<>> THEN prev ELSE lcs_rows(Tail(a), b, lcs_row(prev, Head(a), b, <<>>))

lcs(a, b) == IF b = <<>> THEN 0 ELSE lcs_rows(a, b, [j \in 1..Len(b) |-> 0])[Len(b)]

\* fuzz.ratio: 100 * (1 - indel_distance / (len1 + len2)) = 200 * lcs / (len1 + len2),
\* kept as the exact fraction num / den; two empty strings score 100.
ratio(a, b) == IF Len(a) + Len(b) = 0 THEN [num |-> 100, den |-> 1]
               ELSE [num |-> 200 * lcs(a, b), den |-> Len(a) + Len(b)]

token_sort_ratio(a, b) == ratio(join(sorted(split(a)), <<" ">>), join(sorted(split(b)), <<" ">>))

score_gt(x, y) == x.num * y.den > y.num * x.den

\* temp_confidence >= 85 (lines 108, 114)
Threshold == 85

accepted(score) == score.num >= Threshold * score.den

\* process.extractOne: the first choice with the highest score; None for no choices.
NoScore == [num |-> -1, den |-> 1]

NoResult == [choice |-> <<>>, score |-> NoScore]

RECURSIVE extract_from(_, _, _, _)
extract_from(query, choices, i, best) ==
    IF i > Len(choices) THEN best
    ELSE LET sc == token_sort_ratio(query, choices[i])
         IN extract_from(query, choices, i + 1,
                IF score_gt(sc, best.score) THEN [choice |-> choices[i], score |-> sc] ELSE best)

extractOne(query, choices) == extract_from(query, choices, 1, NoResult)

\* ------------------------------------------------------ identity resolver
None == 0

\* grading_df['Member ID'].dropna().astype(str).values (line 99)
grading_ids(df) ==
    LET ids == [i \in 1..Len(df) |-> df[i].MemberID]
    IN SelectSeq(ids, notna)

\* line 101: the first row (.iloc[0]) whose identifier prints as entrant_id; no
\* dropna here, so a missing identifier prints as "nan".
id_lookup(df, entrant_id) ==
    CHOOSE i \in 1..Len(df) :
        /\ str(df[i].MemberID) = entrant_id
        /\ \A j \in 1..(i - 1) : str(df[j].MemberID) # entrant_id

name_lookup_last(df, best_match) ==
    CHOOSE i \in 1..Len(df) :
        /\ df[i].full_name = best_match
        /\ \A j \in (i + 1)..Len(df) : df[j].full_name # best_match

\* lines 109, 115: the first row (.iloc[0]) whose full_name is best_match
name_lookup(df, best_match) ==
    CHOOSE i \in 1..Len(df) :
        /\ df[i].full_name = best_match
        /\ \A j \in 1..(i - 1) : df[j].full_name # best_match

\* line 92
entrant_id_of(entrant) ==
    IF notna(entrant.MemberID) THEN strip(str(entrant.MemberID)) ELSE <<>>

short_name_with_middle(entrant) == entrant.full_name

\* line 112
short_name_of(entrant) == lower(strip(entrant.Firstname) \o <<" ">> \o strip(entrant.Name))

\* entrant.get('Events', '') (line 90)
events_of(entrant) == IF entrant.Events = Absent THEN <<>> ELSE entrant.Events

NotGraded == <<"N","/","A">>

\* lines 119-140
result_row(entrant, mrow, status) ==
    [EntrantName |-> title(entrant.full_name),
     MemberID |-> IF entrant_id_of(entrant) # <<>> THEN entrant_id_of(entrant) ELSE <<"N","o","n","e">>,
     Events |-> events_of(entrant),
     Singles |-> IF mrow # None THEN grading_df[mrow].Singles ELSE NotGraded,
     Doubles |-> IF mrow # None THEN grading_df[mrow].Doubles ELSE NotGraded,
     Mixed |-> IF mrow # None THEN grading_df[mrow].Mixed ELSE NotGraded,
     MatchStatus |-> status]

\* ---------------------------------------------------------- rule validator
grade_order == <<<<"D">>, <<"C">>, <<"B">>, <<"A"," ","R","E","S">>, <<"A">>>>

age_keywords == <<<<"U","1","1">>, <<"U","1","3">>, <<"U","1","5">>, <<"4","5","+">>>>

\* any(x in e for x in [...]) (line 153)
is_age_event(e) == \E k \in 1..Len(age_keywords) : contains(e, age_keywords[k])

\* line 151
event_list_of(events) ==
    LET parts == split_sep(str(events), ",", <<>>)
    IN [i \in 1..Len(parts) |-> strip(parts[i])]

\* line 152
total_events_of(event_list) ==
    LET nonempty(e) == e # <<>>
    IN Len(SelectSeq(event_list, nonempty))

\* line 153
filtered_events_of(event_list) ==
    LET keep(e) == ~is_age_event(e)
    IN SelectSeq(event_list, keep)

\* lines 154-155
normalized_grades_of(filtered_events) ==
    LET event_grades == [i \in 1..Len(filtered_events) |-> parse_event_grade(filtered_events[i])]
        in_scale(g) == in_list(g, grade_order)
    IN SelectSeq(event_grades, in_scale)

MaxEvents == 3

MsgMaxEvents == <<"More than 3 events">>

MsgSpan == <<"Grade span exceeds 2 levels">>

MsgSingles(g) == <<"Singles graded too high: ">> \o g

MsgDoubles(g) == <<"Doubles graded too high: ">> \o g

MsgMixed(g) == <<"Mixed graded too high: ">> \o g

max_events_rule_from_3(total_events) == IF total_events >= MaxEvents THEN <<MsgMaxEvents>> ELSE <<>>

\* lines 160-161
max_events_rule(total_events) == IF total_events > MaxEvents THEN <<MsgMaxEvents>> ELSE <<>>

SpanLimit == 2

grade_span_rule_above_2(normalized_grades) ==
    IF \E i, j \in 1..Len(normalized_grades) :
           index(grade_order, normalized_grades[i]) - index(grade_order, normalized_grades[j]) > SpanLimit
    THEN <<MsgSpan>> ELSE <<>>

\* lines 164-169
grade_span_rule(normalized_grades) ==
    IF normalized_grades # <<>>
    THEN LET ranks == {index(grade_order, normalized_grades[i]) : i \in 1..Len(normalized_grades)}
             min_rank == CHOOSE r \in ranks : \A q \in ranks : r <= q
             max_rank == CHOOSE r \in ranks : \A q \in ranks : r >= q
             span == max_rank - min_rank
         IN IF span >= SpanLimit THEN <<MsgSpan>> ELSE <<>>
    ELSE <<>>

graded_too_high_or_equal(eg, resolved) == index(grade_order, eg) <= index(grade_order, resolved)

\* lines 177, 180, 183
graded_too_high(eg, resolved) == index(grade_order, eg) < index(grade_order, resolved)

\* lines 174-184, for one event
eligibility_of(row, e) ==
    LET eg == parse_event_grade(e)
    IN IF in_list(eg, grade_order)
       THEN IF (startswith(e, <<"M","S">>) \/ startswith(e, <<"W","S">>)) /\ in_list(row.Singles, grade_order)
            THEN (IF graded_too_high(eg, row.Singles) THEN <<MsgSingles(row.Singles)>> ELSE <<>>)
            ELSE IF (startswith(e, <<"M","D">>) \/ startswith(e, <<"W","D">>)) /\ in_list(row.Doubles, grade_order)
            THEN (IF graded_too_high(eg, row.Doubles) THEN <<MsgDoubles(row.Doubles)>> ELSE <<>>)
            ELSE IF startswith(e, <<"X","D">>) /\ in_list(row.Mixed, grade_order)
            THEN (IF graded_too_high(eg, row.Mixed) THEN <<MsgMixed(row.Mixed)>> ELSE <<>>)
            ELSE <<>>
       ELSE <<>>

RECURSIVE eligibility_loop(_, _)
eligibility_loop(row, events) ==
    IF events = <<>> THEN <<>>
    ELSE eligibility_of(row, Head(events)) \o eligibility_loop(row, Tail(events))

\* lines 172-184
eligibility_rule(row, filtered_events) ==
    IF in_list(row.Singles, grade_order) \/ in_list(row.Doubles, grade_order)
       \/ in_list(row.Mixed, grade_order)
    THEN eligibility_loop(row, filtered_events)
    ELSE <<>>

MsgOK == <<"OK">>

\* line 186
violation_string(violations) == IF violations # <<>> THEN join(violations, <<", ">>) ELSE MsgOK

\* ------------------------------------------------------------ derived views
\* Series.str.contains('U11|U13|U15|45+', case=False, na=False): a regular expression
\* search, ignoring case; "45+" is a "4" followed by one or more "5".
str_contains(events) ==
    IF events = NaN THEN FALSE
    ELSE LET s == lower(events)
         IN \/ contains(s, lower(<<"U","1","1">>))
            \/ contains(s, lower(<<"U","1","3">>))
            \/ contains(s, lower(<<"U","1","5">>))
            \/ \E i \in 1..(Len(s) - 1) : s[i] = "4" /\ s[i + 1] = "5"

\* The row positions of a table of n rows; df[cond] keeps those that satisfy cond.
positions(n) == [i \in 1..n |-> i]

\* ------------------------------------------------------------------ inputs
Roster(surname, first, id, singles, doubles, mixed) ==
    [Surname |-> surname, Firstname |-> first, MemberID |-> id,
     Singles |-> singles, Doubles |-> doubles, Mixed |-> mixed, full_name |-> Absent]

Entrant(name, first, middle, id, events) ==
    [Name |-> name, Firstname |-> first, Middlename |-> middle,
     MemberID |-> id, Events |-> events, full_name |-> Absent]

\* Rosters and entrants for the resolver: padded, blank and missing identifiers,
\* duplicate names, middle names, a missing given name.
ResolverRosterPool ==
    { Roster(<<"l","i">>, <<"a","l">>, <<"7">>, <<"B">>, <<"C">>, <<"D">>),
      Roster(<<"l","i">>, <<"a","l">>, <<"7"," ">>, <<"A">>, <<"A">>, <<"A">>),
      Roster(<<"a","l"," ","l","i">>, NaN, NaN, <<"C">>, <<"C">>, <<"C">>),
      Roster(<<"l","e","e">>, <<"a","n","n">>, <<" ">>, <<"D">>, <<"D">>, <<"D">>) }

ResolverEntrantPool ==
    { Entrant(<<"l","i">>, <<"a","l">>, <<"b">>, NaN, <<"M","S"," ","A">>),
      Entrant(<<"l","e","e">>, <<"a","n","n">>, <<"b">>, <<" ">>, <<"M","S"," ","A">>),
      Entrant(<<"o","x">>, <<"z","e","d">>, NaN, <<" ","7"," ">>, <<"M","S"," ","A">>),
      Entrant(<<"l","i">>, NaN, <<"b","o","b">>, NaN, <<"M","S"," ","A">>),
      Entrant(<<"l","i">>, <<"a","l">>, Absent, <<"7"," ">>, <<"M","S"," ","A">>),
      Entrant(<<"l","e","e">>, <<"a","n","n">>, Absent, NaN, <<"M","S"," ","A">>) }

\* Rosters and entrants for the rule validator and the views.
ValidatorRosterPool ==
    { Roster(<<"l","i">>, <<"a","l">>, <<"7">>, <<"B">>, <<"C">>, <<"A"," ","R","E","S">>),
      Roster(<<"l","e","e">>, <<"a","n","n">>, <<"8">>, NaN, <<"A"," ","R","e","s","e","r","v","e">>, <<"D">>) }

ValidatorEntrantPool ==
    { Entrant(<<"l","i">>, <<"a","l">>, Absent, <<"7">>, <<"M","S"," ","D",","," ","M","D"," ","C",","," ","X","D"," ","A">>),
      Entrant(<<"l","i">>, <<"a","l">>, Absent, <<"7">>, <<"M","S"," ","A",","," ","M","S"," ","B",","," ","M","D"," ","C">>),
      Entrant(<<"l","i">>, <<"a","l">>, Absent, <<"7">>, <<"M","S"," ","D",",","M","S"," ","C",",","X","D"," ","B",",","W","D"," ","D">>),
      Entrant(<<"l","i">>, <<"a","l">>, Absent, <<"7">>, <<"X","D"," ","D",","," ","M","D"," ","D",","," ","M","S"," ","B",","," ","U","1","1"," ","X","D">>),
      Entrant(<<"l","i">>, <<"a","l">>, Absent, <<"7">>, <<"M","S"," ","A",",">>),
      Entrant(<<"l","e","e">>, <<"a","n","n">>, Absent, <<"8">>, <<"M","S"," ","A"," ","R","e","s","e","r","v","e",","," ","X","D"," ","O","p","e","n",","," ","M","D"," ","A"," ","O","p","e","n">>),
      Entrant(<<"o","x">>, <<"z","e","d">>, Absent, NaN, <<"U","1","5"," ","M","S"," ","A",","," ","M","S"," ","D",","," ","M","S"," ","C">>),
      Entrant(<<"o","x">>, <<"z","e","d">>, Absent, NaN, <<"M","S"," ","u","1","5",","," ","M","D"," ","A"," ","O","p","e","n",","," ","W","S"," ","4","5"," ","D">>),
      Entrant(<<"o","x">>, <<"z","e","d">>, Absent, NaN, <<"4","5","+"," ","M","D"," ","A",","," ","M","S"," ","C">>),
      Entrant(<<"o","x">>, <<"z","e","d">>, Absent, NaN, <<"M","S"," ","B",","," ","M","S"," ","C",","," ","M","D"," ","B",","," ","M","D"," ","C">>),
      Entrant(<<"o","x">>, <<"z","e","d">>, Absent, NaN, NaN),
      Entrant(<<"o","x">>, <<"z","e","d">>, Absent, NaN, Absent) }

Tables(pool, lo, hi) == UNION {[1..n -> pool] : n \in lo..hi}

\* A table has a column for all of its rows or for none.
SameColumns(df) ==
    \A i, j \in 1..Len(df) :
        /\ (df[i].Middlename = Absent) = (df[j].Middlename = Absent)
        /\ (df[i].Events = Absent) = (df[j].Events = Absent)

\* The tokens of the event labels given to parse_event_grade on its own.
ParserTokens == {<<"M","S">>, <<"A">>, <<"B">>, <<"R","e","s","e","r","v","e">>, <<"O","p","e","n">>, <<"R","E","S">>}

ParserLabels == {join(t, <<" ">>) : t \in Tables(ParserTokens, 0, MaxTokens)}

\* ------------------------------------------------------------------ states
Unbound == <<"Unbound">>

InitLocals ==
    /\ pc = "load"
    /\ exc = ""
    /\ idx = 0
    /\ results = <<>>
    /\ matched_row = None
    /\ match_status = ""
    /\ temp_confidence = NoScore
    /\ violations_list = <<>>
    /\ entrant_violations = <<>>
    /\ violations_df = <<>>
    /\ no_match_df = <<>>
    /\ age_no_match_df = <<>>
    /\ event = Unbound
    /\ grade = Unbound

Init ==
    /\ grading_df \in Tables(ResolverRosterPool, 0, MaxRoster)
    /\ entrant_df \in {df \in Tables(ResolverEntrantPool, 1, MaxEntrants) : SameColumns(df)}
    /\ InitLocals

InitValidator ==
    /\ grading_df \in Tables(ValidatorRosterPool, 1, MaxRoster)
    /\ entrant_df \in {df \in Tables(ValidatorEntrantPool, 1, MaxEntrants) : SameColumns(df)}
    /\ InitLocals

InitParser ==
    /\ grading_df = <<>>
    /\ entrant_df = <<>>
    /\ pc = "parse"
    /\ exc = ""
    /\ idx = 0
    /\ results = <<>>
    /\ matched_row = None
    /\ match_status = ""
    /\ temp_confidence = NoScore
    /\ violations_list = <<>>
    /\ entrant_violations = <<>>
    /\ violations_df = <<>>
    /\ no_match_df = <<>>
    /\ age_no_match_df = <<>>
    /\ event \in ParserLabels
    /\ grade = Unbound

\* ----------------------------------------------------------------- actions
\* Lines 77-85: both tables get their full_name column.
Load ==
    /\ pc = "load"
    /\ grading_df' = [i \in 1..Len(grading_df) |->
           [grading_df[i] EXCEPT !.full_name =
               build_full_name(grading_df[i].Firstname, Absent, grading_df[i].Surname)]]
    /\ entrant_df' = [i \in 1..Len(entrant_df) |->
           [entrant_df[i] EXCEPT !.full_name =
               build_full_name(entrant_df[i].Firstname, entrant_df[i].Middlename, entrant_df[i].Name)]]
    /\ pc' = "resolve"
    /\ idx' = 1
    /\ UNCHANGED <<exc, results, matched_row, match_status, temp_confidence,
                   violations_list, entrant_violations,
                   violations_df, no_match_df, age_no_match_df, event, grade>>

\* The except clause of line 214, entered from the resolver loop.
RaiseInResolve(name, confidence) ==
    /\ pc' = "error"
    /\ exc' = name
    /\ matched_row' = None
    /\ match_status' = "No Match"
    /\ temp_confidence' = confidence
    /\ UNCHANGED <<idx, results>>

\* Lines 119-140 and the loop's step; after the last entrant, line 142.
Collect(entrant, mrow, status, confidence) ==
    /\ results' = Append(results, result_row(entrant, mrow, status))
    /\ matched_row' = mrow
    /\ match_status' = status
    /\ temp_confidence' = confidence
    /\ exc' = exc
    /\ IF idx = Len(entrant_df)
       THEN pc' = "rules" /\ idx' = 1
       ELSE pc' = "resolve" /\ idx' = idx + 1

\* One iteration of the loop of lines 87-140.
Resolve ==
    /\ pc = "resolve"
    /\ LET entrant == entrant_df[idx]
           entrant_name == entrant.full_name
           entrant_id == entrant_id_of(entrant)
           choices == [i \in 1..Len(grading_df) |-> grading_df[i].full_name]
           full == extractOne(entrant_name, choices)
           short == extractOne(short_name_of(entrant), choices)
       IN IF entrant_id # <<>> /\ in_list(entrant_id, grading_ids(grading_df))
          THEN Collect(entrant, id_lookup(grading_df, entrant_id), "Member ID Match",
                       temp_confidence)
          ELSE IF choices = <<>>
          THEN RaiseInResolve("TypeError", temp_confidence)
          ELSE IF accepted(full.score)
          THEN Collect(entrant, name_lookup(grading_df, full.choice), "Name Search", full.score)
          ELSE IF entrant.Firstname = NaN \/ entrant.Name = NaN
          THEN RaiseInResolve("AttributeError", full.score)
          ELSE IF accepted(short.score)
          THEN Collect(entrant, name_lookup(grading_df, short.choice), "Name Search", short.score)
          ELSE Collect(entrant, None, "No Match", short.score)
    /\ UNCHANGED <<grading_df, entrant_df, violations_list, entrant_violations,
                   violations_df, no_match_df, age_no_match_df, event, grade>>

\* One iteration of the loop of lines 149-186.
Rules ==
    /\ pc = "rules"
    /\ LET row == results[idx]
           event_list == event_list_of(row.Events)
           total_events == total_events_of(event_list)
           filtered_events == filtered_events_of(event_list)
           violations == max_events_rule(total_events)
                         \o grade_span_rule(normalized_grades_of(filtered_events))
                         \o eligibility_rule(row, filtered_events)
       IN IF \E i \in 1..Len(filtered_events) : parse_raises(filtered_events[i])
          THEN /\ pc' = "error"
               /\ exc' = "IndexError"
               /\ UNCHANGED <<idx, violations_list, entrant_violations>>
          ELSE /\ entrant_violations' = violations
               /\ violations_list' = Append(violations_list, violation_string(violations))
               /\ exc' = exc
               /\ IF idx = Len(results)
                  THEN pc' = "views" /\ idx' = idx
                  ELSE pc' = "rules" /\ idx' = idx + 1
    /\ UNCHANGED <<grading_df, entrant_df, results, matched_row, match_status,
                   temp_confidence, violations_df, no_match_df, age_no_match_df,
                   event, grade>>

\* Lines 188-212: the violations view and the two unmatched views, as the positions
\* of their rows. The .str accessor of line 203 raises on a column that holds no
\* string at all (every Events cell missing), after line 201 has run.
Views ==
    /\ pc = "views"
    /\ LET n == Len(results)
           violating(i) == violations_list[i] # MsgOK
           no_match(i) == results[i].MatchStatus = "No Match"
           filtered(i) == no_match(i) /\ ~str_contains(results[i].Events)
           age(i) == no_match(i) /\ str_contains(results[i].Events)
       IN /\ violations_df' = SelectSeq(positions(n), violating)
          /\ IF \A i \in 1..n : results[i].Events = NaN
             THEN /\ no_match_df' = SelectSeq(positions(n), no_match)
                  /\ age_no_match_df' = age_no_match_df
                  /\ pc' = "error"
                  /\ exc' = "AttributeError"
             ELSE /\ no_match_df' = SelectSeq(positions(n), filtered)
                  /\ age_no_match_df' = SelectSeq(positions(n), age)
                  /\ pc' = "done"
                  /\ exc' = exc
    /\ UNCHANGED <<grading_df, entrant_df, idx, results, matched_row, match_status,
                   temp_confidence, violations_list, entrant_violations, event, grade>>

\* parse_event_grade on its own (lines 38-44).
Parse ==
    /\ pc = "parse"
    /\ IF parse_raises(event)
       THEN pc' = "error" /\ exc' = "IndexError" /\ grade' = grade
       ELSE pc' = "parsed" /\ exc' = exc /\ grade' = parse_event_grade(event)
    /\ UNCHANGED <<grading_df, entrant_df, idx, results, matched_row, match_status,
                   temp_confidence, violations_list, entrant_violations,
                   violations_df, no_match_df, age_no_match_df, event>>

Next == Load \/ Resolve \/ Rules \/ Views

ParserNext == Parse

Spec == Init /\ [][Next]_vars

SpecValidator == InitValidator /\ [][Next]_vars

SpecParser == InitParser /\ [][ParserNext]_vars

\* -------------------------------------------------------------- properties
\* The entrant the locals of the resolver loop belong to (0: none yet, or the
\* loop raised on the entrant it was resolving).
LastResolved ==
    IF pc = "resolve" THEN idx - 1
    ELSE IF pc # "load" /\ Len(results) = Len(entrant_df) THEN Len(results)
    ELSE 0

IdMatched(k) == results[k].MatchStatus = "Member ID Match"

NameMatched(k) == results[k].MatchStatus = "Name Search"

Unmatched(k) == results[k].MatchStatus = "No Match"

RECURSIVE ScoresFrom(_, _)
ScoresFrom(query, i) ==
    IF i > Len(grading_df) THEN <<>>
    ELSE <<token_sort_ratio(query, grading_df[i].full_name)>> \o ScoresFrom(query, i + 1)

\* The score of every roster record for a name, in roster order.
RosterScores(query) == ScoresFrom(query, 1)

AtLeast85(score) == 100 * score.num >= 8500 * score.den

SomeAtLeast85(scores) == \E i \in 1..Len(scores) : AtLeast85(scores[i])

SameScore(x, y) == x.num * y.den = y.num * x.den

IsBestOf(scores, score) ==
    /\ \E i \in 1..Len(scores) : SameScore(scores[i], score)
    /\ \A i \in 1..Len(scores) : ~score_gt(scores[i], score)

GivenFamily(entrant) == lower(strip(entrant.Firstname) \o <<" ">> \o strip(entrant.Name))

\* The roster's scores for the name that decides: the full name when its best
\* score reaches the threshold, the short name (given + family) otherwise.
DecidingScores(entrant) ==
    LET full == RosterScores(entrant.full_name)
    IN IF SomeAtLeast85(full) THEN full ELSE RosterScores(GivenFamily(entrant))

\* C1: an entrant gets "Member ID Match" exactly when its trimmed identifier is not
\* empty and equals, both trimmed, the identifier of a roster record whose
\* identifier is not blank.
C1_TrimmedIdentifierEquals(entrant) ==
    /\ notna(entrant.MemberID)
    /\ strip(entrant.MemberID) # <<>>
    /\ \E i \in 1..Len(grading_df) :
          /\ notna(grading_df[i].MemberID)
          /\ strip(grading_df[i].MemberID) # <<>>
          /\ strip(grading_df[i].MemberID) = strip(entrant.MemberID)

C1_IdentifierMatch ==
    \A k \in 1..Len(results) : IdMatched(k) <=> C1_TrimmedIdentifierEquals(entrant_df[k])

C3_EmptyRosterCompletes ==
    Len(grading_df) = 0 =>
       /\ pc # "error"
       /\ \A k \in 1..Len(results) : Unmatched(k) /\ results[k].Singles = NotGraded

\* C4: with a non-empty roster the run never ends in the error state, and a
\* finished run has one row and one violation string per entrant, in entrant order.
C4_NeverAborts ==
    Len(grading_df) > 0 =>
       /\ pc # "error"
       /\ pc = "done" =>
             /\ Len(results) = Len(entrant_df)
             /\ Len(violations_list) = Len(entrant_df)
             /\ \A k \in 1..Len(results) : results[k].EntrantName = title(entrant_df[k].full_name)

\* C5: the eligibility messages of an entrant are, in event order, one message per
\* event that is not age-restricted, has a grade of the scale, is classified by
\* its prefix, and is graded below the entrant's grade of the scale in that
\* discipline.
C5_Rank(g) == CHOOSE r \in 0..(Len(grade_order) - 1) : grade_order[r + 1] = g

C5_InScale(g) == \E r \in 1..Len(grade_order) : grade_order[r] = g

C5_Discipline(e) ==
    IF Len(e) < 2 THEN "Unclassified"
    ELSE IF SubSeq(e, 1, 2) \in {<<"M","S">>, <<"W","S">>} THEN "Singles"
    ELSE IF SubSeq(e, 1, 2) \in {<<"M","D">>, <<"W","D">>} THEN "Doubles"
    ELSE IF SubSeq(e, 1, 2) = <<"X","D">> THEN "Mixed"
    ELSE "Unclassified"

C5_Resolved(row, d) ==
    IF d = "Singles" THEN row.Singles
    ELSE IF d = "Doubles" THEN row.Doubles
    ELSE IF d = "Mixed" THEN row.Mixed
    ELSE NaN

C5_Offending(row, e) ==
    /\ ~is_age_event(e)
    /\ C5_InScale(parse_event_grade(e))
    /\ C5_Discipline(e) # "Unclassified"
    /\ C5_InScale(C5_Resolved(row, C5_Discipline(e)))
    /\ C5_Rank(parse_event_grade(e)) < C5_Rank(C5_Resolved(row, C5_Discipline(e)))

C5_Message(row, e) ==
    <<C5_Discipline(e) \o " graded too high: ">> \o C5_Resolved(row, C5_Discipline(e))

C5_Expected(row) ==
    LET events == event_list_of(row.Events)
        offending(i) == C5_Offending(row, events[i])
        hits == SelectSeq([i \in 1..Len(events) |-> i], offending)
    IN [n \in 1..Len(hits) |-> C5_Message(row, events[hits[n]])]

C5_IsEligibilityMessage(m) ==
    Head(m) \in {"Singles graded too high: ", "Doubles graded too high: ", "Mixed graded too high: "}

C5_GradeEligibility ==
    Len(violations_list) >= 1 =>
       /\ SelectSeq(entrant_violations, C5_IsEligibilityMessage)
             = C5_Expected(results[Len(violations_list)])
       /\ Unmatched(Len(violations_list)) =>
             SelectSeq(entrant_violations, C5_IsEligibilityMessage) = <<>>

C5_Witness ==
    /\ Len(violations_list) >= 1
    /\ Len(SelectSeq(entrant_violations, C5_IsEligibilityMessage)) >= 3

\* C6: "Grade span exceeds 2 levels" is in an entrant's violation string exactly
\* when two grades of the scale, parsed from events that are not age-restricted,
\* are at least 2 ranks apart.
C6_ScaleGrades(events) ==
    LET list == event_list_of(events)
    IN {parse_event_grade(list[i]) :
           i \in {j \in 1..Len(list) : ~is_age_event(list[j])
                                       /\ C5_InScale(parse_event_grade(list[j]))}}

C6_SpanAtLeast2(events) ==
    \E lo, hi \in C6_ScaleGrades(events) : C5_Rank(hi) - C5_Rank(lo) >= 2

C6_GradeSpan ==
    \A k \in 1..Len(violations_list) :
        contains(violations_list[k], MsgSpan) <=> C6_SpanAtLeast2(results[k].Events)

C6_Witness ==
    \E k, n \in 1..Len(violations_list) :
        /\ Unmatched(k) /\ contains(violations_list[k], MsgSpan)
        /\ ~contains(violations_list[n], MsgSpan)
        /\ \E e \in {event_list_of(results[n].Events)[i] :
                        i \in 1..Len(event_list_of(results[n].Events))} :
              is_age_event(e) /\ parse_event_grade(e) = <<"A">>

\* C7: "More than 3 events" is in an entrant's violation string exactly when the
\* events field has more than 3 non-blank comma-separated labels, age-restricted
\* ones counted, and it is then the first message of the string.
C7_Count(events) ==
    IF events = NaN THEN 0
    ELSE LET parts == split_sep(events, ",", <<>>)
         IN Cardinality({i \in 1..Len(parts) : \E j \in 1..Len(parts[i]) : parts[i][j] # " "})

C7_MaxEvents ==
    \A k \in 1..Len(violations_list) :
        /\ contains(violations_list[k], MsgMaxEvents) <=> C7_Count(results[k].Events) > 3
        /\ contains(violations_list[k], MsgMaxEvents) => Head(violations_list[k]) = Head(MsgMaxEvents)

C7_Witness ==
    \E k \in 1..Len(violations_list) :
        /\ C7_Count(results[k].Events) = 4
        /\ \E i \in 1..Len(event_list_of(results[k].Events)) :
              is_age_event(event_list_of(results[k].Events)[i])
        /\ contains(violations_list[k], MsgMaxEvents)
        /\ contains(violations_list[k], MsgSpan)
        /\ Len(SelectSeq(entrant_violations, C5_IsEligibilityMessage)) >= 1

\* C8: in a finished run an unmatched entrant is in the age-specific view exactly
\* when one of its events is age-restricted for the rule validator, and in the
\* filtered view exactly when none is; a matched entrant is in neither view.
C8_HasAgeEvent(events) ==
    \E i \in 1..Len(event_list_of(events)) : is_age_event(event_list_of(events)[i])

C8_UnmatchedViews ==
    pc = "done" =>
       \A k \in 1..Len(results) :
           /\ in_list(k, age_no_match_df) <=> (Unmatched(k) /\ C8_HasAgeEvent(results[k].Events))
           /\ in_list(k, no_match_df) <=> (Unmatched(k) /\ ~C8_HasAgeEvent(results[k].Events))

\* C9: a name match takes its grades from the first roster record, in roster
\* order, among those with the highest score for the name that decided.
C9_Tied(scores) ==
    {i \in 1..Len(scores) : \A j \in 1..Len(scores) : ~score_gt(scores[j], scores[i])}

C9_First(entrant) ==
    LET tied == C9_Tied(DecidingScores(entrant))
    IN CHOOSE i \in tied : \A j \in tied : i <= j

C9_TieBreak ==
    /\ \A k \in 1..Len(results) :
          NameMatched(k) =>
             LET first == grading_df[C9_First(entrant_df[k])]
             IN /\ results[k].Singles = first.Singles
                /\ results[k].Doubles = first.Doubles
                /\ results[k].Mixed = first.Mixed
    /\ (LastResolved >= 1 /\ NameMatched(LastResolved)) =>
          matched_row = C9_First(entrant_df[LastResolved])

C9_Witness ==
    \E k \in 1..Len(results) :
        /\ NameMatched(k)
        /\ \E i, j \in C9_Tied(DecidingScores(entrant_df[k])) :
              /\ i < j
              /\ grading_df[i].full_name = grading_df[j].full_name
              /\ grading_df[i].Singles # grading_df[j].Singles

\* C10: for a label with at least one token, parse_event_grade returns "A RES" when
\* the last two tokens are "A" "Reserve", "A" when they are "A" "Open", and the
\* last token otherwise.
C10_LastTwo(label) ==
    IF Len(split(label)) < 2 THEN <<>>
    ELSE SubSeq(split(label), Len(split(label)) - 1, Len(split(label)))

C10_ParseGrade ==
    pc = "parsed" =>
       grade = IF C10_LastTwo(event) = <<<<"A">>, <<"R","e","s","e","r","v","e">>>> THEN <<"A"," ","R","E","S">>
               ELSE IF C10_LastTwo(event) = <<<<"A">>, <<"O","p","e","n">>>> THEN <<"A">>
               ELSE split(event)[Len(split(event))]

C10_Witness ==
    /\ pc = "parsed"
    /\ Len(split(event)) = 3
    /\ C10_LastTwo(event) = <<<<"A">>, <<"R","e","s","e","r","v","e">>>>
    /\ grade = <<"A"," ","R","E","S">>

====
